---------------------------- MODULE Spec2Model ----------------------------
(***************************************************************************)
(* A model of the AI-lawsuit tracker (src/src/*.py): the CourtListener     *)
(* fetch boundary, the aggregation pipeline of main(), the markdown        *)
(* renderer and the publishing stage with its base-snapshot comparison.    *)
(*                                                                         *)
(* Four specifications share the variables:                                *)
(*   Spec         main() from its first fetch to the call of the renderer  *)
(*   SpecFetch    one call of a fetch-boundary function of courtlistener   *)
(*   SpecRender   the table rows render_markdown emits                     *)
(*   SpecPublish  the publishing stage of main() (run.py 117-186), run     *)
(*                after run against one issue tracker                      *)
(***************************************************************************)
EXTENDS Integers, Sequences, FiniteSets, TLC

VARIABLES
    \* ---- main(), run.py 48-110
    pc,                    \* the next step of main()
    err,                   \* the exception that ended the run, or None
    calls,                 \* the fetch/merge/render steps done so far, in order
    hits,                  \* run.py 49-58
    cl_docs,               \* run.py 60, 87
    cl_cases,              \* run.py 62, 78
    lawsuits,              \* run.py 67
    extra_cases,           \* run.py 71
    extra_cases_by_title,  \* run.py 75
    merged_cases,          \* run.py 77: the values of the dict, in its order
    docket_ids,            \* run.py 81
    extra_docs,            \* run.py 82
    merged_docs,           \* run.py 83-86: the values of the dict, in its order
    md,                    \* run.py 104
    \* ---- one call of a fetch-boundary function
    fcall,                 \* [fn, resp, got, result, raised]
    \* ---- the issue tracker and the chat channel
    issues,                \* issue number -> [title, open, body, comments]
    slack,                 \* the texts posted to the webhook
    \* ---- the publishing stage of one run, run.py 38-41, 117-186
    runs,                  \* the runs started so far
    now_kst,               \* run.py 38: [day, minute]
    report,                \* md as rendered and stamped, run.py 111
    issue_no,              \* run.py 118
    current_body,          \* run.py 124
    branch,                \* the branch taken at run.py 128
    skipped_count,         \* run.py 126, 139
    closing,               \* github_issue.py 74: the listed issues still to visit
    closed,                \* github_issue.py 64, 80: the issues closed by this run
    last_rerun             \* the previous comparison: [issue, report, skipped]

mainVars == <<pc, err, calls, hits, cl_docs, cl_cases, lawsuits, extra_cases,
              extra_cases_by_title, merged_cases, docket_ids, extra_docs, merged_docs, md>>
pubVars == <<issues, slack, runs, now_kst, report, issue_no, current_body, branch,
             skipped_count, closing, closed, last_rerun>>
vars == <<mainVars, fcall, pubVars>>

(***************************************************************************)
(* Python values.  A dict is a function from its keys, None is an atom and *)
(* strings are atoms; "UNKNOWN" stands for the sentinel string of the      *)
(* source (courtlistener.py 212-224, 262-307).                             *)
(***************************************************************************)
None == "<None>"
EmptyDict == <<>>
Unknown == "UNKNOWN"

\* dict.get(k) of a string-valued key
Get(d, k) == IF k \in DOMAIN d THEN d[k] ELSE None

\* bool(v) of a string or None
Truthy(v) == v # None /\ v # ""

\* a or b
Or(a, b) == IF Truthy(a) THEN a ELSE b

\* s[:10] on the atoms that occur: one timestamp is longer than ten characters
Take10(s) == IF s = "2026-11-03T09:00:00Z" THEN "2026-11-03" ELSE s

\* the concatenation of a sequence of sequences
RECURSIVE Flatten(_)
Flatten(ss) == IF ss = <<>> THEN <<>> ELSE Head(ss) \o Flatten(Tail(ss))

\* the sequences over S of length at most n
SeqUpTo(S, n) == UNION {[1..k -> S] : k \in 0..n}

\* sep.join(seq)
RECURSIVE Join(_, _)
Join(seq, sep) ==
    IF seq = <<>> THEN ""
    ELSE IF Len(seq) = 1 THEN seq[1]
    ELSE seq[1] \o sep \o Join(Tail(seq), sep)

(***************************************************************************)
(* Text.  Most strings are atoms.  The strings over Alphabet are spelled   *)
(* character by character, so that strip, replace and splitlines act on    *)
(* their characters; "^" stands for the backquote.                         *)
(***************************************************************************)
MaxCell == 3    \* characters of a spelled field value

Alphabet == {"a", "|", "\\", "\n", "\r", "^", "~", " "}
Spellings == SeqUpTo(Alphabet, MaxCell)
SpellPairs == {<<Join(t, ""), t>> : t \in Spellings}
SpelledStrings == {p[1] : p \in SpellPairs}
Spelled == [t \in Spellings |-> Join(t, "")]
Unspell == [s \in SpelledStrings |-> (CHOOSE p \in SpellPairs : p[1] = s)[2]]

\* the characters of a string
Chars(s) == IF s \in SpelledStrings THEN Unspell[s] ELSE <<s>>

NL == "\n"
Blank == {" ", "\n", "\r"}

\* str.strip()
RECURSIVE LStrip(_)
LStrip(t) == IF t # <<>> /\ Head(t) \in Blank THEN LStrip(Tail(t)) ELSE t
RECURSIVE RStrip(_)
RStrip(t) ==
    IF t # <<>> /\ t[Len(t)] \in Blank THEN RStrip(SubSeq(t, 1, Len(t) - 1)) ELSE t
StripChars(t) == RStrip(LStrip(t))

\* str.strip()
Strip(s) == IF s \in SpelledStrings THEN Spelled[StripChars(Chars(s))] ELSE s

(***************************************************************************)
(* The HTTP boundary.  An exchange either fails in the network or returns  *)
(* a final status and a body; the HTTP library follows redirects, so the   *)
(* final status is a 2xx, a 4xx or a 5xx.  A body parses to a JSON object  *)
(* (val), to a JSON array, or not at all.                                  *)
(***************************************************************************)
Statuses == {200, 401, 403, 404, 500}

NoneBody == [parse |-> "none", val |-> EmptyDict]
InvalidBody == [parse |-> "invalid", val |-> EmptyDict]
EmptyArrayBody == [parse |-> "array0", val |-> EmptyDict]
ArrayBody == [parse |-> "array", val |-> EmptyDict]
DictBody(d) == [parse |-> "dict", val |-> d]

NetError == [net |-> "error", status |-> 0, body |-> InvalidBody]
HttpResp(s, b) == [net |-> "ok", status |-> s, body |-> b]

\* every exchange whose 200 bodies are drawn from Bodies
Responses(Bodies) ==
    {NetError} \cup {HttpResp(s, b) : s \in Statuses,
                                      b \in Bodies \cup {InvalidBody, EmptyArrayBody, ArrayBody}}

\* the exchanges the fetch boundary is to swallow
IsFailure(resp) ==
    \/ resp.net = "error"
    \/ resp.status \notin {200}
    \/ resp.body.parse = "invalid"

\* courtlistener.py 75-79: the body of the try block; exc is what it raises
_get_try(resp) ==
    IF resp.net = "error" THEN [exc |-> "ConnectionError", ret |-> NoneBody]
    ELSE IF resp.status \in {401, 403} THEN [exc |-> None, ret |-> NoneBody]
    ELSE IF resp.status >= 400 THEN [exc |-> "HTTPError", ret |-> NoneBody]
    ELSE IF resp.body.parse = "invalid" THEN [exc |-> "JSONDecodeError", ret |-> NoneBody]
    ELSE [exc |-> None, ret |-> resp.body]

\* a _get whose except clause lets an HTTPError through
_get_reraise(resp) ==
    LET o == _get_try(resp)
    IN  IF o.exc \notin {None, "HTTPError"} THEN [exc |-> None, ret |-> NoneBody] ELSE o

\* courtlistener.py 73-81: _get
_get(resp) ==
    LET o == _get_try(resp)
    IN  IF o.exc # None THEN [exc |-> None, ret |-> NoneBody] ELSE o

\* "not data" for what _get returns: None, {} and [] are falsy
NotData(b) == b.parse \in {"none", "array0"} \/ (b.parse = "dict" /\ b.val = EmptyDict)

\* data.get("results", []) or []
Results(b) == IF "results" \in DOMAIN b.val THEN b.val.results ELSE <<>>

\* the shared shape of the listing functions: [] on no data, an
\* AttributeError when a JSON array has no .get, else the results
Listing(resp) ==
    LET g == _get(resp)
    IN  IF g.exc # None THEN [exc |-> g.exc, ret |-> <<>>]
        ELSE IF NotData(g.ret) THEN [exc |-> None, ret |-> <<>>]
        ELSE IF g.ret.parse = "array" THEN [exc |-> "AttributeError", ret |-> <<>>]
        ELSE [exc |-> None, ret |-> Results(g.ret)]

\* courtlistener.py 98-110: dates of the search filter; the cutoff is now - days
OldDates == {"2026-01-15"}
IsoDates == {"2026-11-03", "2026-01-15"}

\* courtlistener.py 102-111: whether the filter keeps a search result
KeepRecent(it) ==
    LET date_val == Or(Get(it, "dateFiled"), Or(Get(it, "date_filed"),
                       Or(Get(it, "dateCreated"), Get(it, "date_created"))))
    IN  ~(Truthy(date_val) /\ Take10(date_val) \in IsoDates /\ Take10(date_val) \in OldDates)

\* courtlistener.py 92-112
search_recent_documents(resp) ==
    LET l == Listing(resp)
    IN  [exc |-> l.exc, ret |-> SelectSeq(l.ret, KeepRecent)]

\* courtlistener.py 136-140
list_recap_documents(resp) == Listing(resp)

\* courtlistener.py 142-146
list_parties(resp) == Listing(resp)

\* courtlistener.py 149-153
list_docket_entries(resp) == Listing(resp)

\* courtlistener.py 133-134: fetch_docket(id) or {} as the builders use it
fetch_docket(resp) ==
    LET g == _get(resp)
    IN  IF g.exc # None THEN [exc |-> g.exc, ret |-> EmptyDict]
        ELSE IF g.ret.parse = "dict" THEN [exc |-> None, ret |-> g.ret.val]
        ELSE IF g.ret.parse = "array" THEN [exc |-> "AttributeError", ret |-> EmptyDict]
        ELSE [exc |-> None, ret |-> EmptyDict]

(***************************************************************************)
(* Field helpers of courtlistener.py.                                      *)
(***************************************************************************)
BASE == "https://www.courtlistener.com"
Today == "2026-11-04"

\* courtlistener.py 130-131
_safe_str(x) == IF x = None THEN "" ELSE Strip(x)

\* courtlistener.py 83-90 on the URL atoms that occur
_abs_url(u) ==
    IF ~Truthy(u) THEN ""
    ELSE IF u \in {"https://x.org/c.pdf"} THEN u
    ELSE IF u \in {"/doc/1/", "/doc/2/", "/pdf/1.pdf"} THEN BASE \o u
    ELSE u

\* courtlistener.py 114-128: 0 stands for None; ids are JSON integers here
_pick_docket_id(hit) ==
    IF "docket_id" \in DOMAIN hit THEN hit.docket_id
    ELSE IF "docketId" \in DOMAIN hit THEN hit.docketId
    ELSE IF "docket" \in DOMAIN hit THEN hit.docket
    ELSE 0

\* the first of keys ks (in order) whose value in d is truthy, else dflt
RECURSIVE FirstOf(_, _, _)
FirstOf(d, ks, dflt) ==
    IF ks = <<>> THEN dflt
    ELSE IF Truthy(Get(d, Head(ks))) THEN d[Head(ks)]
    ELSE FirstOf(d, Tail(ks), dflt)

\* courtlistener.py 19-24, 155-157 on the atoms that occur
ComplaintTexts == {"Complaint", "Amended Complaint", "Petition"}
_is_complaint(doc) ==
    \/ _safe_str(Get(doc, "description")) \in ComplaintTexts
    \/ _safe_str(Get(doc, "document_type")) \in ComplaintTexts

\* courtlistener.py 159-168
_extract_pdf_url(doc) ==
    LET v == FirstOf(doc, <<"filepath_local", "filepathLocal", "download_url",
                            "downloadUrl", "file", "pdf_url", "pdfUrl">>, "")
    IN  IF Truthy(v) THEN _abs_url(v)
        ELSE _abs_url(FirstOf(doc, <<"absolute_url", "url">>, ""))

\* courtlistener.py 202, 293: the URL looks like a PDF
LooksPdf(u) == u \in {BASE \o "/pdf/1.pdf", "https://x.org/c.pdf"}

\* the order of str on the date atoms that occur (sorted(..., reverse=True))
DateRank(s) ==
    CASE s = "" -> 0
      [] s = "2026-01-15" -> 1
      [] s = "2026-11-03" -> 2
      [] s = "2026-11-03T09:00:00Z" -> 3
      [] s = "2026-11-04" -> 4
      [] s = "n/a" -> 5
      [] OTHER -> 6

\* sorted(seq, key=R, reverse=True): stable, equal keys keep their order
SortDescBy(seq, R(_)) ==
    LET n == Len(seq)
        pos(i) == Cardinality({j \in 1..n : R(seq[j]) > R(seq[i])})
                  + Cardinality({j \in 1..(i - 1) : R(seq[j]) = R(seq[i])}) + 1
    IN  [p \in 1..n |-> seq[CHOOSE i \in 1..n : pos(i) = p]]

\* seq[:n]
Take(seq, n) == SubSeq(seq, 1, IF Len(seq) < n THEN Len(seq) ELSE n)

RawDocDate(d) == _safe_str(FirstOf(d, <<"date_filed", "dateFiled">>, None))
RawDocDateRank(d) == DateRank(RawDocDate(d))

(***************************************************************************)
(* Text extraction (pdf_text, complaint_parse): what the extractor gives   *)
(* for a PDF: the snippet, the caption's parties, the causes already       *)
(* joined by ", " ("" for none) and the AI-training sentence.              *)
(***************************************************************************)
NoText == [snippet |-> "", plaintiff |-> Unknown, defendant |-> Unknown,
           causes |-> "", ai |-> ""]
FullText == [snippet |-> "TEXT", plaintiff |-> "P", defendant |-> "D",
             causes |-> "copyright", ai |-> "trained an LLM"]
BareText == [snippet |-> "TEXT", plaintiff |-> Unknown, defendant |-> Unknown,
             causes |-> "", ai |-> ""]
Texts == {NoText, FullText, BareText}

(***************************************************************************)
(* build_complaint_documents_from_hits, courtlistener.py 170-232.  env[i]  *)
(* holds the exchanges and the extraction met while hit i is handled.      *)
(***************************************************************************)
\* courtlistener.py 228-232: dict keyed by the tuple, later entries overwrite
DocKey(x) == <<x.docket_id, x.doc_number, x.date_filed, x.document_url>>

\* list({K(x): x for x in seq}.values()): a dict keeps the place of a key's
\* first insertion and the value of its last
DictValues(seq, K(_)) ==
    LET n == Len(seq)
        firsts == {i \in 1..n : \A j \in 1..(i - 1) : K(seq[j]) # K(seq[i])}
        nth(p) == CHOOSE i \in firsts : Cardinality({j \in firsts : j < i}) = p - 1
        last(i) == CHOOSE j \in 1..n :
                       /\ K(seq[j]) = K(seq[i])
                       /\ \A k \in (j + 1)..n : K(seq[k]) # K(seq[i])
    IN  [p \in 1..Cardinality(firsts) |-> seq[last(nth(p))]]

\* courtlistener.py 191-226: one CLDocument
MakeDocument(docket_id, docket_number, case_name, court, d, text) ==
    LET doc_type == _safe_str(FirstOf(d, <<"document_type", "documentType">>, ""))
        doc_number == _safe_str(FirstOf(d, <<"document_number", "documentNumber",
                                             "document_num">>, ""))
        desc == _safe_str(FirstOf(d, <<"description">>, ""))
        date_filed == Or(Take10(RawDocDate(d)), Today)
        document_url == _abs_url(FirstOf(d, <<"absolute_url", "absoluteUrl", "url">>, ""))
        pdf_url == _extract_pdf_url(d)
        t == IF Truthy(pdf_url) /\ LooksPdf(pdf_url) /\ Truthy(text.snippet)
             THEN text ELSE NoText
    IN  [docket_id |-> docket_id,
         docket_number |-> Or(docket_number, Unknown),
         case_name |-> Or(case_name, Unknown),
         court |-> Or(court, Unknown),
         date_filed |-> date_filed,
         doc_type |-> Or(doc_type, IF _is_complaint(d) THEN "Complaint" ELSE "Document"),
         doc_number |-> Or(doc_number, Unknown),
         description |-> Or(desc, Unknown),
         document_url |-> Or(document_url, Or(pdf_url, "")),
         pdf_url |-> Or(pdf_url, ""),
         pdf_text_snippet |-> t.snippet,
         extracted_plaintiff |-> t.plaintiff,
         extracted_defendant |-> t.defendant,
         extracted_causes |-> Or(t.causes, Unknown),
         extracted_ai_snippet |-> Or(t.ai, "")]

\* courtlistener.py 172-226: the documents of one hit
DocsOfHit(hit, e) ==
    LET docket_id == _pick_docket_id(hit)
        dk == fetch_docket(e.docket)
        docket == dk.ret
        case_name == _safe_str(FirstOf(docket, <<"case_name", "caseName">>,
                                       FirstOf(hit, <<"caseName", "title">>, None)))
        docket_number == _safe_str(FirstOf(docket, <<"docket_number", "docketNumber">>, ""))
        court == _safe_str(FirstOf(docket, <<"court", "court_id", "courtId">>, ""))
        rl == list_recap_documents(e.recap)
        recap_docs == rl.ret
        complaints == SelectSeq(recap_docs, _is_complaint)
        complaint_docs == IF complaints # <<>> THEN complaints
                          ELSE Take(SortDescBy(recap_docs, RawDocDateRank), 2)
        chosen == Take(complaint_docs, 3)
    IN  IF docket_id = 0 THEN [exc |-> None, ret |-> <<>>]
        ELSE IF dk.exc # None THEN [exc |-> dk.exc, ret |-> <<>>]
        ELSE IF rl.exc # None THEN [exc |-> rl.exc, ret |-> <<>>]
        ELSE [exc |-> None,
              ret |-> [i \in 1..Len(chosen) |->
                         MakeDocument(docket_id, docket_number, case_name, court,
                                      chosen[i], e.text)]]

\* the first exception of a sequence of outcomes, or None
FirstExc(outs) ==
    LET bad == {i \in 1..Len(outs) : outs[i].exc # None}
    IN  IF bad = {} THEN None ELSE outs[CHOOSE i \in bad : \A j \in bad : i <= j].exc

\* courtlistener.py 170-232
build_complaint_documents_from_hits(hs, env) ==
    LET outs == [i \in 1..Len(hs) |-> DocsOfHit(hs[i], env[i])]
    IN  [exc |-> FirstExc(outs),
         ret |-> IF FirstExc(outs) # None THEN <<>>
                 ELSE DictValues(Flatten([i \in 1..Len(outs) |-> outs[i].ret]), DocKey)]

(***************************************************************************)
(* build_case_summaries_from_hits, courtlistener.py 234-329.               *)
(***************************************************************************)
\* courtlistener.py 234-245; max_n is 12
PartyName(p) ==
    LET nm == _safe_str(FirstOf(p, <<"name", "party_name", "partyName">>, None))
        typ == _safe_str(FirstOf(p, <<"party_type", "partyType", "role">>, None))
    IN  IF Truthy(nm) THEN (IF Truthy(typ) THEN nm \o "(" \o typ \o ")" ELSE nm) ELSE ""

_format_parties(parties) ==
    LET firstN == Take(parties, 12)
        names == SelectSeq([i \in 1..Len(firstN) |-> PartyName(firstN[i])], Truthy)
    IN  IF names = <<>> THEN Unknown
        ELSE Join(IF Len(parties) > 12 THEN Append(names, "...") ELSE names, "; ")

\* courtlistener.py 247-251
_status_from_docket(docket) ==
    LET term == _safe_str(FirstOf(docket, <<"date_terminated", "dateTerminated">>, ""))
    IN  IF Truthy(term) THEN "closed(" \o Take10(term) \o ")" ELSE "open/unknown"

\* courtlistener.py 300-307
EntryText(e) ==
    LET dt == Take10(_safe_str(FirstOf(e, <<"date_filed", "dateFiled">>, "")))
        desc == _safe_str(FirstOf(e, <<"description", "text", "title">>, ""))
    IN  IF Truthy(dt) /\ Truthy(desc) THEN dt \o " " \o desc
        ELSE IF Truthy(dt) THEN dt ELSE desc

RecentUpdates(entries) ==
    LET first3 == Take(entries, 3)
        updates == SelectSeq([i \in 1..Len(first3) |-> EntryText(first3[i])], Truthy)
    IN  IF updates = <<>> THEN Unknown ELSE Join(updates, " / ")

\* courtlistener.py 256-326: the summary of one hit (at most one)
CaseOfHit(hit, e) ==
    LET docket_id == _pick_docket_id(hit)
        dk == fetch_docket(e.docket)
        docket == dk.ret
        pl == list_parties(e.parties)
        rl == list_recap_documents(e.recap)
        el == list_docket_entries(e.entries)
        complaint_docs == SelectSeq(rl.ret, _is_complaint)
        d == SortDescBy(complaint_docs, RawDocDateRank)[1]
        pdf_url == _extract_pdf_url(d)
        t == IF complaint_docs # <<>> /\ Truthy(pdf_url) /\ LooksPdf(pdf_url)
                /\ Truthy(e.text.snippet)
             THEN e.text ELSE NoText
        excs == <<dk, pl, rl, el>>
    IN  IF docket_id = 0 THEN [exc |-> None, ret |-> <<>>]
        ELSE IF FirstExc(excs) # None THEN [exc |-> FirstExc(excs), ret |-> <<>>]
        ELSE [exc |-> None, ret |-> <<
         [docket_id |-> docket_id,
          case_name |-> Or(_safe_str(FirstOf(docket, <<"case_name", "caseName">>,
                              FirstOf(hit, <<"caseName", "title">>, None))), Unknown),
          docket_number |-> Or(_safe_str(FirstOf(docket, <<"docket_number",
                                                 "docketNumber">>, "")), Unknown),
          court |-> Or(_safe_str(FirstOf(docket, <<"court", "court_id", "courtId">>, "")),
                       Unknown),
          date_filed |-> Or(Take10(_safe_str(FirstOf(docket, <<"date_filed", "dateFiled">>,
                                                     ""))), Unknown),
          status |-> _status_from_docket(docket),
          judge |-> Or(_safe_str(FirstOf(docket, <<"assigned_to_str", "assignedToStr",
                                         "assigned_to", "assignedTo">>, "")), Unknown),
          magistrate |-> Or(_safe_str(FirstOf(docket, <<"referred_to_str", "referredToStr",
                                              "referred_to", "referredTo">>, "")), Unknown),
          nature_of_suit |-> Or(_safe_str(FirstOf(docket, <<"nature_of_suit",
                                                  "natureOfSuit">>, "")), Unknown),
          cause |-> Or(_safe_str(FirstOf(docket, <<"cause">>, "")), Unknown),
          parties |-> _format_parties(pl.ret),
          complaint_doc_no |->
              IF complaint_docs = <<>> THEN Unknown
              ELSE Or(_safe_str(FirstOf(d, <<"document_number", "documentNumber",
                                             "document_num">>, "")), Unknown),
          complaint_link |->
              IF complaint_docs = <<>> THEN ""
              ELSE Or(_abs_url(FirstOf(d, <<"absolute_url", "absoluteUrl", "url">>, "")),
                      pdf_url),
          recent_updates |-> RecentUpdates(el.ret),
          extracted_causes |-> Or(t.causes, Unknown),
          extracted_ai_snippet |-> Or(t.ai, "")] >>]

\* courtlistener.py 328: the key of a Case Summary
CaseKey(c) == c.docket_id

\* courtlistener.py 253-329
build_case_summaries_from_hits(hs, env) ==
    LET outs == [i \in 1..Len(hs) |-> CaseOfHit(hs[i], env[i])]
    IN  [exc |-> FirstExc(outs),
         ret |-> IF FirstExc(outs) # None THEN <<>>
                 ELSE DictValues(Flatten([i \in 1..Len(outs) |-> outs[i].ret]), CaseKey)]

(***************************************************************************)
(* The remote data a run can meet.                                         *)
(***************************************************************************)
MaxHits == 2        \* results in one search response
MaxLawsuits == 1    \* lawsuits built from the news
MaxExtra == 1       \* records a docket-number, title or docket-id lookup returns

\* search results: two of docket 1 under different names and keys, one of
\* docket 2 sharing hA's dedup key, one old result without a docket id
hA == [docket_id |-> 1, caseName |-> "X", dateFiled |-> "2026-11-03"]
hB == [docket |-> 1, title |-> "Y", absolute_url |-> "/doc/1/", date_created |-> "n/a"]
hC == [docketId |-> 2, caseName |-> "X", date_filed |-> "2026-11-03T09:00:00Z"]
hD == [caseName |-> "Y", dateFiled |-> "2026-01-15"]
SearchItems == {hA, hB, hC, hD}
SearchBodies == {DictBody(EmptyDict)}
                \cup {DictBody([results |-> r]) : r \in SeqUpTo(SearchItems, MaxHits)}

\* dockets
dk1 == [case_name |-> "X", docket_number |-> "1:23-cv-1", court |-> "cand",
        date_filed |-> "2026-11-03", nature_of_suit |-> "820 Copyright",
        assigned_to_str |-> "J"]
dk2 == [caseName |-> "Z", dateTerminated |-> "2026-11-03T09:00:00Z",
        natureOfSuit |-> "190 Contract", cause |-> " "]

\* RECAP documents: a complaint with a PDF, two other filings
rdComplaint == [description |-> "Complaint", document_number |-> "1",
                date_filed |-> "2026-11-03", absolute_url |-> "/doc/1/",
                filepath_local |-> "/pdf/1.pdf"]
rdOrder == [description |-> "Order", documentNumber |-> "2", dateFiled |-> "2026-01-15"]
rdNotice == [document_type |-> "Notice", url |-> "/doc/2/"]

\* parties and docket entries
pty1 == [name |-> "Acme", party_type |-> "Plaintiff"]
pty2 == [partyName |-> "Bot Inc"]
ent1 == [date_filed |-> "2026-11-03", description |-> "Complaint"]
ent2 == [text |-> "Order"]

\* what handling one hit meets: every exchange answered, the docket missing
\* and the listings thin, or the service down
EnvOk == [docket |-> HttpResp(200, DictBody(dk1)),
          parties |-> HttpResp(200, DictBody([results |-> <<pty1, pty2>>])),
          recap |-> HttpResp(200, DictBody([results |-> <<rdOrder, rdComplaint>>])),
          entries |-> HttpResp(200, DictBody([results |-> <<ent1, ent2>>])),
          text |-> FullText]
EnvThin == [docket |-> HttpResp(404, InvalidBody),
            parties |-> HttpResp(200, DictBody(EmptyDict)),
            recap |-> HttpResp(200, DictBody([results |-> <<rdOrder, rdNotice>>])),
            entries |-> HttpResp(403, InvalidBody),
            text |-> NoText]
EnvDown == [docket |-> NetError, parties |-> NetError, recap |-> NetError,
            entries |-> HttpResp(500, InvalidBody), text |-> NoText]
Envs == {EnvOk, EnvThin, EnvDown}

(***************************************************************************)
(* The collaborators of main() whose code is not in the repository's       *)
(* sources: the news pipeline and the three docket-number, title and       *)
(* docket-id lookups (run.py 6-7, 22-26).                                  *)
(***************************************************************************)
COURTLISTENER_QUERIES == <<"q1">>

lsFull == [case_number |-> "1:23-cv-1", case_title |-> "A v. B", article_title |-> "News",
           article_urls |-> "one"]
lsBare == [case_number |-> Unknown, case_title |-> " ", article_title |-> "News",
           article_urls |-> "none"]
LawsuitLists == SeqUpTo({lsFull, lsBare}, MaxLawsuits)

\* a Case Summary as a lookup returns it
Summary(id, name, link) ==
    [docket_id |-> id, case_name |-> name, docket_number |-> "1:23-cv-1",
     court |-> Unknown, date_filed |-> "2026-01-15", status |-> "open/unknown",
     judge |-> Unknown, magistrate |-> Unknown, nature_of_suit |-> Unknown,
     cause |-> Unknown, parties |-> Unknown, complaint_doc_no |-> Unknown,
     complaint_link |-> link, recent_updates |-> Unknown,
     extracted_causes |-> Unknown, extracted_ai_snippet |-> ""]
LookupSummaries == {Summary(1, "Y", ""), Summary(1, "W", "/doc/9/"), Summary(2, "Y", "")}

\* build_case_summaries_from_docket_numbers / _from_case_titles: nothing to
\* look up gives nothing, else any short list of summaries
LookupCases(keys) ==
    IF keys = <<>> THEN {<<>>} ELSE SeqUpTo(LookupSummaries, MaxExtra)

\* build_documents_from_docket_ids: documents of the dockets asked for
LookupDocs(ids) ==
    SeqUpTo({MakeDocument(ids[i], "", "", "", rdComplaint, NoText) : i \in 1..Len(ids)},
            MaxExtra)

(***************************************************************************)
(* render.py.  Rendered text is a sequence of characters; a literal of the *)
(* source without '|' or line breaks is one element, as is each field atom *)
(* of the builders.  ASCII words stand for the Korean literals.            *)
(***************************************************************************)
\* str.replace(old, new): leftmost, non-overlapping
RECURSIVE Replace(_, _, _)
Replace(t, old, new) ==
    IF Len(t) < Len(old) THEN t
    ELSE IF SubSeq(t, 1, Len(old)) = old
         THEN new \o Replace(SubSeq(t, Len(old) + 1, Len(t)), old, new)
         ELSE <<Head(t)>> \o Replace(Tail(t), old, new)

\* render.py 8-15 on the characters of str(s or "")
EscChars(t) ==
    LET s1 == StripChars(t)
        s2 == Replace(Replace(s1, <<"\r", "\n">>, <<"\n">>), <<"\r">>, <<"\n">>)
        s3 == Replace(s2, <<"^", "^", "^">>, <<"&#96;", "&#96;", "&#96;">>)
        s4 == Replace(s3, <<"~", "~", "~">>, <<"&#126;", "&#126;", "&#126;">>)
        s5 == Replace(s4, <<"|">>, <<"\\", "|">>)
    IN  Replace(s5, <<"\n">>, <<"<br>">>)

\* render.py 8-15
_esc(s) == EscChars(Chars(Or(s, "")))

\* render.py 18-19
_md_sep(col_count) == <<"|">> \o Flatten([i \in 1..col_count |-> <<"---", "|", " ">>])

\* render.py 22-27
_mdlink(label, url) ==
    LET u == StripChars(Chars(Or(url, "")))
    IN  IF u = <<>> THEN _esc(label)
        ELSE <<"[">> \o _esc(label) \o <<"](">> \o u \o <<")">>

\* the lines of t from position i on, breaks being the positions of its
\* line-break characters
RECURSIVE LinesFrom(_, _, _)
LinesFrom(t, i, breaks) ==
    IF i > Len(t) THEN <<>>
    ELSE LET later == {b \in breaks : b >= i}
             e == IF later = {} THEN Len(t) + 1
                  ELSE CHOOSE b \in later : \A k \in later : b <= k
             next == IF e < Len(t) /\ t[e] = "\r" /\ t[e + 1] = "\n" THEN e + 2 ELSE e + 1
         IN  <<SubSeq(t, i, e - 1)>> \o LinesFrom(t, next, breaks)

\* str.splitlines(): the text cut at "\n", "\r" and "\r\n", without the
\* breaks and without an empty last line
splitlines(t) == LinesFrom(t, 1, {i \in 1..Len(t) : t[i] \in {"\n", "\r"}})

\* the pieces of t from position i on, cut at the positions in seps
RECURSIVE PiecesFrom(_, _, _)
PiecesFrom(t, i, seps) ==
    LET later == {b \in seps : b >= i}
        e == IF later = {} THEN Len(t) + 1 ELSE CHOOSE b \in later : \A k \in later : b <= k
    IN  IF later = {} THEN <<SubSeq(t, i, Len(t))>>
        ELSE <<SubSeq(t, i, e - 1)>> \o PiecesFrom(t, e + 1, seps)

\* str.split("\n")
SplitNL(t) == PiecesFrom(t, 1, {i \in 1..Len(t) : t[i] = "\n"})

\* "\n".join(lines)
JoinLines(lines) ==
    Flatten([i \in 1..Len(lines) |-> IF i = 1 THEN lines[i] ELSE <<NL>> \o lines[i]])

\* Counter(xs).most_common(): distinct values by falling count, ties in the
\* order of first occurrence
MostCommon(xs) ==
    LET keys == DictValues(xs, LAMBDA x : x)
        count(k) == Cardinality({i \in 1..Len(xs) : xs[i] = k})
    IN  [i \in 1..Len(keys) |-> <<SortDescBy(keys, count)[i],
                                   count(SortDescBy(keys, count)[i])>>]

\* render.py 37-58, for a list that is not empty
_generate_executive_summary(cases) ==
    LET copyright == Cardinality({i \in 1..Len(cases) : cases[i].nature_of_suit
                                      \in {"820 Copyright", "820"}})
        courts == MostCommon([i \in 1..Len(cases) |-> Or(cases[i].court, Unknown)])
    IN  JoinLines(
          << <<"recent ", ToString(Len(cases)), " AI lawsuits were found.">>,
             <<"of these ", ToString(copyright), " are 820 Copyright.">>,
             <<"main issue: unlicensed collection of training data.">>,
             <<"most active court: ">> \o Chars(courts[1][1]) \o <<".">>,
             <<"case law on AI training data is forming.">> >>)

\* render.py 113-114: "820" and "copyright" in the lowercased nature of suit
IsCopyrightCase(c) == Or(c.nature_of_suit, "") \in {"820 Copyright"}

CaseDateRank(c) == DateRank(Or(c.date_filed, ""))

\* render.py 126-137: one row of a case table
CaseRow(c) ==
    LET docket_url == IF c.docket_id # 0
                      THEN <<"https://www.courtlistener.com/docket/",
                             ToString(c.docket_id), "/">>
                      ELSE <<>>
        link(label) == IF docket_url = <<>> THEN _esc(label)
                       ELSE <<"[">> \o _esc(label) \o <<"](">> \o docket_url \o <<")">>
    IN  <<"|", " ">> \o _esc(c.status) \o <<" ", "|", " ">>
        \o _esc(c.date_filed) \o <<" ", "|", " ">>
        \o link(c.case_name) \o <<" ", "|", " ">>
        \o _esc(c.nature_of_suit) \o <<" ", "|", " ">>
        \o link(c.docket_number) \o <<" ", "|", " ">>
        \o _esc(c.judge) \o <<" ", "|", " ">>
        \o _esc(c.court) \o <<" ", "|">>

CaseHeader == <<"|", " status ", "|", " filed ", "|", " case ", "|", " nature ", "|",
                " docket ", "|", " judge ", "|", " court ", "|">>

\* a render_table that cuts the list before it sorts it
render_table_cut_first(cases) ==
    LET rows == SortDescBy(Take(cases, 25), CaseDateRank)
    IN  <<CaseHeader, _md_sep(7)>> \o [i \in 1..Len(rows) |-> CaseRow(rows[i])]

\* render.py 119-137: render_table
render_table(cases) ==
    LET rows == Take(SortDescBy(cases, CaseDateRank), 25)
    IN  <<CaseHeader, _md_sep(7)>> \o [i \in 1..Len(rows) |-> CaseRow(rows[i])]

DocDateRank(d) == DateRank(Or(d.date_filed, ""))

\* render.py 165-169: one row of the document table
DocRow(d) ==
    <<"|", " ">> \o _esc(d.date_filed) \o <<" ", "|", " ">>
    \o _esc(d.case_name) \o <<" ", "|", " ">>
    \o _esc(d.doc_type) \o <<" ", "|", " ">>
    \o _mdlink("Document", Or(d.document_url, d.pdf_url)) \o <<" ", "|">>

DocHeader == <<"|", " filed ", "|", " case ", "|", " type ", "|", " document ", "|">>

\* the list behind the article_urls of a lawsuit
ArticleUrls(l) == IF l.article_urls = "one" THEN <<"https://news.example/1">> ELSE <<>>

\* render.py 180-196: the listing of one lawsuit
LawsuitLines(l) ==
    LET titled == Truthy(l.case_title) /\ l.case_title # Unknown
        header_title ==
            IF titled /\ Truthy(l.article_title) /\ l.article_title # l.case_title
            THEN Chars(l.case_title) \o <<" / ">> \o Chars(l.article_title)
            ELSE IF titled THEN Chars(l.case_title)
            ELSE Chars(Or(l.article_title, l.case_title))
    IN  << <<"### ">> \o EscChars(header_title) >>
        \o [i \in 1..Len(ArticleUrls(l)) |-> <<"- ", ArticleUrls(l)[i]>>]
        \o << <<>> >>

MarkerText == "## [chart] recent"

\* render.py 70-200: the elements of lines, before "\n".join
ReportLines(ls, docs, cases) ==
    << <<MarkerText, " 3", "d summary", NL>>,
       <<"|", " kind ", "|", " count ", "|">>,
       <<"|", "---", "|", "---", "|">>,
       <<"|", " news ", "|", " **", ToString(Len(ls)), "** ", "|">>,
       <<"|", " RECAP cases ", "|", " **", ToString(Len(cases)), "** ", "|">>,
       <<"|", " RECAP documents ", "|", " **", ToString(Len(docs)), "** ", "|", NL>> >>
    \o (IF cases = <<>> THEN <<>> ELSE
        << <<"## Executive Summary (AI Generated)", NL>> >>
        \o LET summary == SplitNL(_generate_executive_summary(cases))
           IN  [i \in 1..Len(summary) |-> <<"> ">> \o summary[i]]
        \o << <<>> >>
        \o << <<"## Nature of Suit stats", NL>>,
              <<"|", " Nature of Suit ", "|", " count ", "|">>,
              <<"|", "---", "|", "---", "|">> >>
        \o LET mc == Take(MostCommon([i \in 1..Len(cases) |->
                                        Or(cases[i].nature_of_suit, Unknown)]), 10)
           IN  [i \in 1..Len(mc) |-> <<"|", " ">> \o _esc(mc[i][1])
                                     \o <<" ", "|", " **", ToString(mc[i][2]), "** ", "|">>]
        \o << <<>> >>
        \o << <<"## 820 Copyright", NL>> >>
        \o (IF SelectSeq(cases, IsCopyrightCase) # <<>>
            THEN render_table(SelectSeq(cases, IsCopyrightCase))
            ELSE << <<"no 820 cases", NL>> >>)
        \o << <<NL, "<details>">>, <<"<summary><strong>Others</strong></summary>", NL>> >>
        \o (IF SelectSeq(cases, LAMBDA c : ~IsCopyrightCase(c)) # <<>>
            THEN render_table(SelectSeq(cases, LAMBDA c : ~IsCopyrightCase(c)))
            ELSE << <<"no other cases", NL>> >>)
        \o << <<"</details>", NL>> >>)
    \o (IF docs = <<>> THEN <<>> ELSE
        << <<"## RECAP documents (Complaint/Petition first)">>, DocHeader, _md_sep(4) >>
        \o LET rows == Take(SortDescBy(docs, DocDateRank), 20)
           IN  [i \in 1..Len(rows) |-> DocRow(rows[i])]
        \o << <<>> >>)
    \o (IF ls = <<>> THEN <<>> ELSE
        << <<"<details>">>, <<"<summary><strong>articles</strong></summary>", NL>> >>
        \o Flatten([i \in 1..Len(ls) |-> LawsuitLines(ls[i])])
        \o << <<"</details>", NL>> >>)

\* render.py 193: iterating the article_urls of a lawsuit raises when it is
\* None
RenderRaises(ls) == \E i \in 1..Len(ls) : ls[i].article_urls = None

\* render.py 61-204: the report, or the diagnostic of the except clause
render_markdown(ls, docs, cases) ==
    IF RenderRaises(ls) THEN <<"render_markdown error: ", "TypeError">>
    ELSE JoinLines(ReportLines(ls, docs, cases))

(***************************************************************************)
(* main(), run.py 28-110.                                                  *)
(***************************************************************************)
\* run.py 56: the dedup key of a search hit
HitKey(h) == <<FirstOf(h, <<"absolute_url", "url">>, ""),
               FirstOf(h, <<"caseName", "title">>, "")>>

\* run.py 70 and 74: the lookup keys mined from the lawsuits
IsLookupKey(v) == Truthy(Strip(Or(v, ""))) /\ v # Unknown
CaseNumbers(ls) == SelectSeq([i \in 1..Len(ls) |-> ls[i].case_number], IsLookupKey)
CaseTitles(ls) == SelectSeq([i \in 1..Len(ls) |-> ls[i].case_title], IsLookupKey)

\* a merge that keeps the first record of a docket id
MergeCasesFirstWins(a, b, c) ==
    LET all == a \o b \o c
        rev == [i \in 1..Len(all) |-> all[Len(all) + 1 - i]]
        kept == DictValues(rev, CaseKey)
    IN  [i \in 1..Len(kept) |-> kept[Len(kept) + 1 - i]]

\* a merge that lets the search's records overwrite the lookups'
MergeCasesSearchLast(a, b, c) == DictValues(b \o c \o a, CaseKey)

\* run.py 77-78
MergeCases(a, b, c) == DictValues(a \o b \o c, CaseKey)

\* a merge that appends without the dict
MergeDocsNoDedup(a, b) == a \o b

\* run.py 83-87
MergeDocs(a, b) == DictValues(a \o b, DocKey)

\* run.py 98-101
RecapDocCount(cases) ==
    Cardinality({i \in 1..Len(cases) : Truthy(Strip(Or(cases[i].complaint_link, "")))})

\* render.py 61-66: the parameters of render_markdown
RenderParams == <<"lawsuits", "cl_docs", "cl_cases", "lookback_days">>

\* run.py 104-110: main() passes four positional arguments and lookback_days=
RenderCallPositional == <<"lawsuits", "cl_docs", "cl_cases", "recap_doc_count">>
RenderCallKeywords == {"lookback_days"}

\* Python's argument binding: a TypeError when there are more positional
\* arguments than parameters or a keyword names a parameter already bound
BindRaises(params, positional, keywords) ==
    \/ Len(positional) > Len(params)
    \/ \E i \in 1..Len(positional) : i <= Len(params) /\ params[i] \in keywords
    \/ \E k \in keywords : \A i \in 1..Len(params) : params[i] # k

Crash(e) == pc' = "crashed" /\ err' = e

\* run.py 39-41: the two renderings of the start time
run_ts_kst == "2026-11-0" \o ToString(now_kst.day) \o " " \o now_kst.minute
issue_day_kst == "2026-11-0" \o ToString(now_kst.day)

\* run.py 111
Stamped(ts, text) == <<"### run at (KST): ", ts, NL, NL>> \o text

\* run.py 49-58
Search ==
    /\ pc = "search"
    /\ \E resp \in [1..Len(COURTLISTENER_QUERIES) -> Responses(SearchBodies)] :
         LET outs == [q \in 1..Len(COURTLISTENER_QUERIES) |-> search_recent_documents(resp[q])]
         IN  IF FirstExc(outs) # None
             THEN Crash(FirstExc(outs)) /\ UNCHANGED hits
             ELSE /\ hits' = DictValues(Flatten([q \in 1..Len(outs) |-> outs[q].ret]), HitKey)
                  /\ pc' = "build_docs"
                  /\ UNCHANGED err
    /\ calls' = Append(calls, "search")
    /\ UNCHANGED <<cl_docs, cl_cases, lawsuits, extra_cases, extra_cases_by_title,
                   merged_cases, docket_ids, extra_docs, merged_docs, md, fcall, pubVars>>

\* run.py 60
BuildDocs ==
    /\ pc = "build_docs"
    /\ \E env \in [1..Len(hits) -> Envs] :
         LET out == build_complaint_documents_from_hits(hits, env)
         IN  IF out.exc # None
             THEN Crash(out.exc) /\ UNCHANGED cl_docs
             ELSE cl_docs' = out.ret /\ pc' = "build_cases" /\ UNCHANGED err
    /\ calls' = Append(calls, "docs_from_hits")
    /\ UNCHANGED <<hits, cl_cases, lawsuits, extra_cases, extra_cases_by_title,
                   merged_cases, docket_ids, extra_docs, merged_docs, md, fcall, pubVars>>

\* run.py 62
BuildCases ==
    /\ pc = "build_cases"
    /\ \E env \in [1..Len(hits) -> Envs] :
         LET out == build_case_summaries_from_hits(hits, env)
         IN  IF out.exc # None
             THEN Crash(out.exc) /\ UNCHANGED cl_cases
             ELSE cl_cases' = out.ret /\ pc' = "news" /\ UNCHANGED err
    /\ calls' = Append(calls, "cases_from_hits")
    /\ UNCHANGED <<hits, cl_docs, lawsuits, extra_cases, extra_cases_by_title,
                   merged_cases, docket_ids, extra_docs, merged_docs, md, fcall, pubVars>>

\* run.py 65-67
News ==
    /\ pc = "news"
    /\ lawsuits' \in LawsuitLists
    /\ pc' = "by_number"
    /\ calls' = Append(calls, "news")
    /\ UNCHANGED <<err, hits, cl_docs, cl_cases, extra_cases, extra_cases_by_title,
                   merged_cases, docket_ids, extra_docs, merged_docs, md, fcall, pubVars>>

\* run.py 70-71
ExtraByNumber ==
    /\ pc = "by_number"
    /\ extra_cases' \in LookupCases(CaseNumbers(lawsuits))
    /\ pc' = "by_title"
    /\ calls' = Append(calls, "cases_by_docket_number")
    /\ UNCHANGED <<err, hits, cl_docs, cl_cases, lawsuits, extra_cases_by_title,
                   merged_cases, docket_ids, extra_docs, merged_docs, md, fcall, pubVars>>

\* run.py 74-75
ExtraByTitle ==
    /\ pc = "by_title"
    /\ extra_cases_by_title' \in LookupCases(CaseTitles(lawsuits))
    /\ pc' = "merge_cases"
    /\ calls' = Append(calls, "cases_by_title")
    /\ UNCHANGED <<err, hits, cl_docs, cl_cases, lawsuits, extra_cases,
                   merged_cases, docket_ids, extra_docs, merged_docs, md, fcall, pubVars>>

\* run.py 77
MergeCasesStep ==
    /\ pc = "merge_cases"
    /\ merged_cases' = MergeCases(cl_cases, extra_cases, extra_cases_by_title)
    /\ pc' = "assign_cases"
    /\ calls' = Append(calls, "merge_cases")
    /\ UNCHANGED <<err, hits, cl_docs, cl_cases, lawsuits, extra_cases,
                   extra_cases_by_title, docket_ids, extra_docs, merged_docs, md, fcall, pubVars>>

\* run.py 78-81
AssignCases ==
    /\ pc = "assign_cases"
    /\ cl_cases' = merged_cases
    /\ docket_ids' = [i \in 1..Len(merged_cases) |-> merged_cases[i].docket_id]
    /\ pc' = "extra_docs"
    /\ UNCHANGED <<err, calls, hits, cl_docs, lawsuits, extra_cases, extra_cases_by_title,
                   merged_cases, extra_docs, merged_docs, md, fcall, pubVars>>

\* run.py 82
ExtraDocs ==
    /\ pc = "extra_docs"
    /\ extra_docs' \in LookupDocs(docket_ids)
    /\ pc' = "merge_docs"
    /\ calls' = Append(calls, "docs_by_docket_id")
    /\ UNCHANGED <<err, hits, cl_docs, cl_cases, lawsuits, extra_cases,
                   extra_cases_by_title, merged_cases, docket_ids, merged_docs, md, fcall, pubVars>>

\* run.py 83-86
MergeDocsStep ==
    /\ pc = "merge_docs"
    /\ merged_docs' = MergeDocs(cl_docs, extra_docs)
    /\ pc' = "assign_docs"
    /\ calls' = Append(calls, "merge_docs")
    /\ UNCHANGED <<err, hits, cl_docs, cl_cases, lawsuits, extra_cases,
                   extra_cases_by_title, merged_cases, docket_ids, extra_docs, md, fcall, pubVars>>

\* run.py 87
AssignDocs ==
    /\ pc = "assign_docs"
    /\ cl_docs' = merged_docs
    /\ pc' = "render"
    /\ UNCHANGED <<err, calls, hits, cl_cases, lawsuits, extra_cases, extra_cases_by_title,
                   merged_cases, docket_ids, extra_docs, merged_docs, md, fcall, pubVars>>

\* run.py 89-111: the call of render_markdown
Render ==
    /\ pc = "render"
    /\ IF BindRaises(RenderParams, RenderCallPositional, RenderCallKeywords)
       THEN Crash("TypeError") /\ UNCHANGED md
       ELSE /\ md' = Stamped(run_ts_kst, render_markdown(lawsuits, cl_docs, cl_cases))
            /\ pc' = "find_issue" /\ UNCHANGED err
    /\ calls' = Append(calls, "render")
    /\ UNCHANGED <<hits, cl_docs, cl_cases, lawsuits, extra_cases, extra_cases_by_title,
                   merged_cases, docket_ids, extra_docs, merged_docs, fcall, pubVars>>

IdleCall == [fn |-> "none", resp |-> NetError, exc |-> None, ret |-> <<>>]

MainInit ==
    /\ pc = "search" /\ err = None /\ calls = <<>>
    /\ hits = <<>> /\ cl_docs = <<>> /\ cl_cases = <<>> /\ lawsuits = <<>>
    /\ extra_cases = <<>> /\ extra_cases_by_title = <<>> /\ docket_ids = <<>>
    /\ extra_docs = <<>> /\ md = <<>>
    /\ merged_cases = <<>> /\ merged_docs = <<>>

NoRerun == [issue |-> 0, report |-> <<>>, skipped |-> 0]

\* no run has published yet
PubIdle ==
    /\ issues = <<>> /\ slack = <<>> /\ runs = 0
    /\ now_kst = [day |-> 1, minute |-> "09:00"]
    /\ report = <<>> /\ issue_no = 0 /\ current_body = <<>> /\ branch = "none"
    /\ skipped_count = 0 /\ closing = <<>> /\ closed = <<>> /\ last_rerun = NoRerun

Init == MainInit /\ fcall = IdleCall /\ PubIdle

Next ==
    \/ Search \/ BuildDocs \/ BuildCases \/ News \/ ExtraByNumber \/ ExtraByTitle
    \/ MergeCasesStep \/ AssignCases \/ ExtraDocs \/ MergeDocsStep \/ AssignDocs
    \/ Render

Spec == Init /\ [][Next]_vars

(***************************************************************************)
(* render_markdown on its own: the lists are built by the two builders     *)
(* from one search hit whose docket or RECAP document carries a spelled    *)
(* string in one field.                                                    *)
(***************************************************************************)
DocketSlots == {"case_name", "docket_number", "court", "nature_of_suit",
                "assigned_to_str"}
DocumentSlots == {"document_type", "absolute_url"}

\* what the service answers for the hit: value v in one field
EnvWith(slot, v) ==
    LET dk == IF slot \in DocketSlots THEN [dk1 EXCEPT ![slot] = v] ELSE dk1
        rd == IF slot \in DocumentSlots
              THEN [k \in DOMAIN rdComplaint \cup {slot} |->
                      IF k = slot THEN v ELSE rdComplaint[k]]
              ELSE rdComplaint
    IN  [EnvOk EXCEPT !.docket = HttpResp(200, DictBody(dk)),
                      !.recap = HttpResp(200, DictBody([results |-> <<rd>>]))]

lsBroken == [case_number |-> Unknown, case_title |-> "A v. B", article_title |-> "News",
             article_urls |-> None]

InitRender ==
    /\ \E slot \in DocketSlots \cup DocumentSlots, v \in SpelledStrings :
         /\ cl_cases = build_case_summaries_from_hits(<<hA>>, <<EnvWith(slot, v)>>).ret
         /\ cl_docs = build_complaint_documents_from_hits(<<hA>>, <<EnvWith(slot, v)>>).ret
    /\ lawsuits \in {<<>>, <<lsFull>>, <<lsBroken>>}
    /\ pc = "render" /\ err = None /\ calls = <<>> /\ hits = <<hA>>
    /\ extra_cases = <<>> /\ extra_cases_by_title = <<>> /\ docket_ids = <<>>
    /\ extra_docs = <<>> /\ md = <<>> /\ merged_cases = <<>> /\ merged_docs = <<>>
    /\ fcall = IdleCall /\ PubIdle

\* render.py 61-204, called with its three lists
CallRenderMarkdown ==
    /\ pc = "render"
    /\ md' = render_markdown(lawsuits, cl_docs, cl_cases)
    /\ pc' = "rendered"
    /\ calls' = Append(calls, "render_markdown")
    /\ UNCHANGED <<err, hits, cl_docs, cl_cases, lawsuits, extra_cases,
                   extra_cases_by_title, merged_cases, docket_ids, extra_docs,
                   merged_docs, fcall, pubVars>>

NextRender == CallRenderMarkdown

SpecRender == InitRender /\ [][NextRender]_vars

\* the rows of the tables of a text: the lines that start with '|'
IsRow(line) == line # <<>> /\ line[1] = "|"

\* the number of '|' of a line that no backslash precedes
Delimiters(line) ==
    Cardinality({k \in 1..Len(line) : line[k] = "|" /\ (k = 1 \/ line[k - 1] # "\\")})

\* the header of the table that row i of the lines belongs to
HeaderOf(lines, i) ==
    lines[CHOOSE j \in 1..i :
            /\ \A k \in j..i : IsRow(lines[k])
            /\ (j = 1 \/ ~IsRow(lines[j - 1]))]

\* C10: every table row of the rendered report has as many unescaped '|' as
\* the header of its table, whatever the field values of the cases and
\* documents (link URLs included): no field value adds a column delimiter.
C10_RowsKeepColumns ==
    pc = "rendered" =>
        LET lines == splitlines(md)
        IN  \A i \in 1..Len(lines) :
                IsRow(lines[i]) => Delimiters(lines[i]) = Delimiters(HeaderOf(lines, i))

(***************************************************************************)
(* The publishing stage, run.py 117-186 with github_issue.py and slack.py, *)
(* run after run against one issue tracker.  main() as written ends at     *)
(* run.py 104 (see C7_RenderNeverRaises), so the stage is entered here     *)
(* with the text render_markdown returns for the lists of the run.  Every  *)
(* HTTP call either succeeds or fails (non-2xx status or network error);   *)
(* raise_for_status turns a failure into an exception nothing catches.     *)
(* A failed request changes nothing on the server.                         *)
(***************************************************************************)
MaxRuns == 3     \* runs of main() against the tracker

Days == {1, 2}
Minutes == {"09:00"}

\* run.py 35, 42: base_title and the title of the day
base_title == "AI lawsuit monitoring"
IssueTitle(day) == base_title \o " (2026-11-0" \o ToString(day) \o ")"
issue_title == IssueTitle(now_kst.day)

\* titles of issues that people opened under the label: one of the form
\* "<base_title> (...)" and one that starts like it and ends otherwise
DraftTitle == base_title \o " (draft)"
TailTitle == base_title \o " (2026-11-01) notes"

\* github_issue.py 41: the body a new issue is created with
TemplateBody == <<"reports accumulate as comments.">>

\* any body that is not empty counts as a snapshot
issue_has_base_snapshot_nonempty(issue_body) == issue_body # <<>>

\* github_issue.py 25-30: the marker occurs in the body
issue_has_base_snapshot(issue_body) ==
    \E i \in 1..Len(issue_body) : issue_body[i] = MarkerText

\* the open issues with the label as the tracker lists them: newest first
OpenListed ==
    LET open == {n \in 1..Len(issues) : issues[n].open}
        nth(p) == CHOOSE n \in open : Cardinality({k \in open : k > n}) = p - 1
    IN  [p \in 1..Cardinality(open) |-> nth(p)]

\* github_issue.py 68, 77: the title has the form "<base_title> (...)"
IsDailyTitle(t) == t = DraftTitle \/ \E d \in Days : t = IssueTitle(d)

\* github_issue.py 71-74: the footer of a closed issue
Footer(n) == <<"next report: #", ToString(n), NL, NL, "closed by the next report.">>

\* a comparison by position instead of by membership
DifferencerPositional(body, text) ==
    LET base == splitlines(body)
        new == splitlines(text)
        old(i) == i <= Len(base) /\ base[i] = new[i]
    IN  [new_lines |-> [i \in 1..Len(new) |-> IF old(i) THEN <<"skip">> ELSE new[i]],
         skipped_count |-> Cardinality({i \in 1..Len(new) : old(i)})]

\* run.py 133-141: the lines of the new report against the set of the lines
\* of the stored body
Differencer(body, text) ==
    LET base == splitlines(body)
        base_lines == {base[i] : i \in 1..Len(base)}
        new == splitlines(text)
    IN  [new_lines |-> [i \in 1..Len(new) |->
                          IF new[i] \in base_lines THEN <<"skip">> ELSE new[i]],
         skipped_count |-> Cardinality({i \in 1..Len(new) : new[i] \in base_lines})]

\* run.py 144-151
SummaryBlock(n_lawsuits, docket_case_count, recap_doc_count, skipped) ==
    <<"## rerun change summary", NL, NL,
      "- new articles: ", ToString(n_lawsuits), NL,
      "- new RECAP cases: ", ToString(docket_case_count), NL,
      "- new RECAP documents: ", ToString(recap_doc_count), NL,
      "- already reported: ", ToString(skipped), NL, NL,
      "---", NL>>

\* run.py 168-184: the text for the chat channel
SlackText ==
    LET top == Take(SortDescBy(cl_docs, DocDateRank), 3)
    IN  JoinLines(
          << <<"*AI lawsuit monitoring update*">>,
             <<"- new articles: ", ToString(Len(lawsuits))>>,
             <<"- new RECAP cases: ", ToString(Len(cl_cases))>>,
             <<"- already reported: ", ToString(skipped_count)>>,
             <<"- GitHub Issue: <", "#", ToString(issue_no), ">">> >>
          \o (IF cl_docs = <<>> THEN <<>>
              ELSE << <<"- latest RECAP documents:">> >>
                   \o [i \in 1..Len(top) |->
                        <<"  * ", top[i].date_filed, " ", "|", " ", top[i].case_name>>]))

\* the lists a run reaches the renderer with
PubDocs == build_complaint_documents_from_hits(<<hA>>, <<EnvOk>>).ret
PubCases == build_case_summaries_from_hits(<<hA>>, <<EnvOk>>).ret
PubInputs ==
    { [lawsuits |-> <<>>, cl_docs |-> <<>>, cl_cases |-> <<>>],
      [lawsuits |-> <<lsFull>>, cl_docs |-> PubDocs, cl_cases |-> PubCases],
      [lawsuits |-> <<lsBroken>>, cl_docs |-> <<>>, cl_cases |-> <<>>] }

\* an HTTP call of the stage that raised
Raise(call) ==
    /\ pc' = "crashed" /\ err' = "HTTPError"
    /\ calls' = Append(calls, [call |-> call, ok |-> FALSE])

Done(call) == calls' = Append(calls, [call |-> call, ok |-> TRUE])

pubLocals == <<report, issue_no, current_body, branch, skipped_count, closing, closed>>
restOfMain == <<hits, extra_cases, extra_cases_by_title, merged_cases, docket_ids,
                extra_docs, merged_docs, fcall>>

\* run.py 38-111: a run starts, at the same day or the next, and reaches the
\* stage with its lists rendered and stamped
StartRun ==
    /\ pc \in {"idle", "done", "crashed"}
    /\ runs < MaxRuns
    /\ runs' = runs + 1
    /\ \E d \in Days, m \in Minutes, in \in PubInputs :
         /\ d \in {now_kst.day, now_kst.day + 1}
         /\ now_kst' = [day |-> d, minute |-> m]
         /\ lawsuits' = in.lawsuits /\ cl_docs' = in.cl_docs /\ cl_cases' = in.cl_cases
         /\ md' = Stamped("2026-11-0" \o ToString(d) \o " " \o m,
                          render_markdown(in.lawsuits, in.cl_docs, in.cl_cases))
    /\ report' = md'
    /\ last_rerun' = IF branch = "compare"
                     THEN [issue |-> issue_no, report |-> report, skipped |-> skipped_count]
                     ELSE last_rerun
    /\ issue_no' = 0 /\ current_body' = <<>> /\ branch' = "none"
    /\ skipped_count' = 0 /\ closing' = <<>> /\ closed' = <<>>
    /\ pc' = "find_issue" /\ err' = None /\ calls' = <<>>
    /\ UNCHANGED <<issues, slack, restOfMain>>

\* a search that never finds the title
FindIssueNeverFinds ==
    /\ pc = "find_issue"
    /\ \/ Raise("list_issues") /\ UNCHANGED issue_no
       \/ /\ Done("list_issues")
          /\ issue_no' = issue_no /\ pc' = "create_issue"
          /\ UNCHANGED err
    /\ UNCHANGED <<issues, slack, runs, now_kst, report, current_body, branch,
                   skipped_count, closing, closed, last_rerun, lawsuits, cl_docs, cl_cases,
                   md, restOfMain>>

\* github_issue.py 33-39: the open issues are listed and searched for the title
FindIssue ==
    /\ pc = "find_issue"
    /\ \/ Raise("list_issues") /\ UNCHANGED issue_no
       \/ /\ Done("list_issues")
          /\ LET found == SelectSeq(OpenListed, LAMBDA n : issues[n].title = issue_title)
             IN  IF found # <<>>
                 THEN issue_no' = found[1] /\ pc' = "get_body"
                 ELSE issue_no' = issue_no /\ pc' = "create_issue"
          /\ UNCHANGED err
    /\ UNCHANGED <<issues, slack, runs, now_kst, report, current_body, branch,
                   skipped_count, closing, closed, last_rerun, lawsuits, cl_docs, cl_cases, md,
                   restOfMain>>

\* github_issue.py 41-44
CreateIssue ==
    /\ pc = "create_issue"
    /\ \/ Raise("create_issue") /\ UNCHANGED <<issues, issue_no>>
       \/ /\ Done("create_issue")
          /\ issues' = Append(issues, [title |-> issue_title, open |-> TRUE,
                                       body |-> TemplateBody, comments |-> <<>>])
          /\ issue_no' = Len(issues) + 1
          /\ pc' = "get_body"
          /\ UNCHANGED err
    /\ UNCHANGED <<slack, runs, now_kst, report, current_body, branch, skipped_count,
                   closing, closed, last_rerun, lawsuits, cl_docs, cl_cases, md, restOfMain>>

\* run.py 124-128 with github_issue.py 14-18
GetIssueBody ==
    /\ pc = "get_body"
    /\ \/ Raise("get_issue_body") /\ UNCHANGED <<current_body, branch>>
       \/ /\ Done("get_issue_body")
          /\ current_body' = issues[issue_no].body
          /\ branch' = IF issue_has_base_snapshot(issues[issue_no].body)
                       THEN "compare" ELSE "first"
          /\ pc' = IF issue_has_base_snapshot(issues[issue_no].body)
                   THEN "compare" ELSE "update_body"
          /\ UNCHANGED err
    /\ UNCHANGED <<issues, slack, runs, now_kst, report, issue_no, skipped_count,
                   closing, closed, last_rerun, lawsuits, cl_docs, cl_cases, md, restOfMain>>

\* run.py 129-131 with github_issue.py 20-23
UpdateIssueBody ==
    /\ pc = "update_body"
    /\ \/ Raise("update_issue_body") /\ UNCHANGED issues
       \/ /\ Done("update_issue_body")
          /\ issues' = [issues EXCEPT ![issue_no].body = md]
          /\ pc' = "close_list"
          /\ UNCHANGED err
    /\ UNCHANGED <<slack, runs, now_kst, pubLocals, last_rerun, lawsuits, cl_docs,
                   cl_cases, md, restOfMain>>

\* a comparison that also stores its result as the body
CompareAndStore ==
    /\ pc = "compare"
    /\ LET diff == Differencer(current_body, md)
       IN  /\ skipped_count' = diff.skipped_count
           /\ md' = SummaryBlock(Len(lawsuits), Len(cl_cases), RecapDocCount(cl_cases),
                                 diff.skipped_count)
                    \o JoinLines(diff.new_lines)
    /\ issues' = [issues EXCEPT ![issue_no].body = md']
    /\ pc' = "close_list"
    /\ UNCHANGED <<err, calls, slack, runs, now_kst, report, issue_no, current_body,
                   branch, closing, closed, last_rerun, lawsuits, cl_docs, cl_cases, restOfMain>>

\* run.py 132-153: no request is made
Compare ==
    /\ pc = "compare"
    /\ LET diff == Differencer(current_body, md)
       IN  /\ skipped_count' = diff.skipped_count
           /\ md' = SummaryBlock(Len(lawsuits), Len(cl_cases), RecapDocCount(cl_cases),
                                 diff.skipped_count)
                    \o JoinLines(diff.new_lines)
    /\ pc' = "close_list"
    /\ UNCHANGED <<err, calls, issues, slack, runs, now_kst, report, issue_no,
                   current_body, branch, closing, closed, last_rerun, lawsuits, cl_docs, cl_cases,
                   restOfMain>>

\* a filter that does not pass over the issue of the day
ListToCloseAnyDaily ==
    /\ pc = "close_list"
    /\ \/ Raise("list_open_issues") /\ UNCHANGED <<closing, closed>>
       \/ /\ Done("list_open_issues")
          /\ closing' = SelectSeq(OpenListed, LAMBDA n : IsDailyTitle(issues[n].title))
          /\ closed' = <<>>
          /\ pc' = IF closing' = <<>> THEN "comment" ELSE "close_comment"
          /\ UNCHANGED err
    /\ UNCHANGED <<issues, slack, runs, now_kst, report, issue_no, current_body, branch,
                   skipped_count, last_rerun, lawsuits, cl_docs, cl_cases, md, restOfMain>>

\* github_issue.py 65, 51-55 and the filter of 74-78
ListToClose ==
    /\ pc = "close_list"
    /\ \/ Raise("list_open_issues") /\ UNCHANGED <<closing, closed>>
       \/ /\ Done("list_open_issues")
          /\ closing' = SelectSeq(OpenListed, LAMBDA n :
                            /\ issues[n].title # issue_title
                            /\ IsDailyTitle(issues[n].title))
          /\ closed' = <<>>
          /\ pc' = IF closing' = <<>> THEN "comment" ELSE "close_comment"
          /\ UNCHANGED err
    /\ UNCHANGED <<issues, slack, runs, now_kst, report, issue_no, current_body, branch,
                   skipped_count, last_rerun, lawsuits, cl_docs, cl_cases, md, restOfMain>>

\* github_issue.py 87-89: the closing comment
CommentClosing ==
    /\ pc = "close_comment"
    /\ \/ Raise("closing_comment") /\ UNCHANGED issues
       \/ /\ Done("closing_comment")
          /\ issues' = [issues EXCEPT ![Head(closing)].comments =
                                         Append(@, Footer(issue_no))]
          /\ pc' = "close_issue"
          /\ UNCHANGED err
    /\ UNCHANGED <<slack, runs, now_kst, pubLocals, last_rerun, lawsuits, cl_docs,
                   cl_cases, md, restOfMain>>

\* github_issue.py 91, 57-60, then the next issue of the loop
CloseIssue ==
    /\ pc = "close_issue"
    /\ \/ Raise("close_issue") /\ UNCHANGED <<issues, closing, closed>>
       \/ /\ Done("close_issue")
          /\ issues' = [issues EXCEPT ![Head(closing)].open = FALSE]
          /\ closing' = Tail(closing)
          /\ closed' = Append(closed, Head(closing))
          /\ pc' = IF Tail(closing) = <<>> THEN "comment" ELSE "close_comment"
          /\ UNCHANGED err
    /\ UNCHANGED <<slack, runs, now_kst, report, issue_no, current_body, branch,
                   skipped_count, last_rerun, lawsuits, cl_docs, cl_cases, md, restOfMain>>

\* run.py 163-164 with github_issue.py 46-49
CreateComment ==
    /\ pc = "comment"
    /\ \/ Raise("create_comment") /\ UNCHANGED issues
       \/ /\ Done("create_comment")
          /\ issues' = [issues EXCEPT ![issue_no].comments = Append(@, <<NL, NL>> \o md)]
          /\ pc' = "slack"
          /\ UNCHANGED err
    /\ UNCHANGED <<slack, runs, now_kst, pubLocals, last_rerun, lawsuits, cl_docs,
                   cl_cases, md, restOfMain>>

\* a chat post that is tried again after a failure
PostToSlackRetry ==
    /\ pc = "slack"
    /\ \/ /\ calls' = Append(calls, [call |-> "post_to_slack", ok |-> FALSE])
          /\ UNCHANGED <<pc, err, slack>>
       \/ /\ Done("post_to_slack")
          /\ slack' = Append(slack, SlackText)
          /\ pc' = "done"
          /\ UNCHANGED err
    /\ Len(calls) < 12
    /\ UNCHANGED <<issues, runs, now_kst, pubLocals, last_rerun, lawsuits, cl_docs,
                   cl_cases, md, restOfMain>>

\* run.py 168-185 with slack.py 4-6
PostToSlack ==
    /\ pc = "slack"
    /\ \/ Raise("post_to_slack") /\ UNCHANGED slack
       \/ /\ Done("post_to_slack")
          /\ slack' = Append(slack, SlackText)
          /\ pc' = "done"
          /\ UNCHANGED err
    /\ UNCHANGED <<issues, runs, now_kst, pubLocals, last_rerun, lawsuits, cl_docs,
                   cl_cases, md, restOfMain>>

InitPublish ==
    /\ pc = "idle" /\ err = None /\ calls = <<>>
    /\ hits = <<>> /\ cl_docs = <<>> /\ cl_cases = <<>> /\ lawsuits = <<>>
    /\ extra_cases = <<>> /\ extra_cases_by_title = <<>> /\ docket_ids = <<>>
    /\ extra_docs = <<>> /\ md = <<>> /\ merged_cases = <<>> /\ merged_docs = <<>>
    /\ fcall = IdleCall /\ PubIdle

NextPublish ==
    \/ StartRun \/ FindIssue \/ CreateIssue \/ GetIssueBody \/ UpdateIssueBody
    \/ Compare \/ ListToClose \/ CommentClosing \/ CloseIssue \/ CreateComment
    \/ PostToSlack

SpecPublish == InitPublish /\ [][NextPublish]_vars

(***************************************************************************)
(* Properties of main().                                                   *)
(***************************************************************************)
\* the records of seq that carry docket id k, in order
WithId(seq, k) == SelectSeq(seq, LAMBDA c : c.docket_id = k)

Ids(seq) == {seq[i].docket_id : i \in 1..Len(seq)}

\* out holds one record per docket id of all, and it is the last of all with that id
OnePerIdLastWins(out, all) ==
    /\ \A i, j \in 1..Len(out) : i # j => out[i].docket_id # out[j].docket_id
    /\ Ids(out) = Ids(all)
    /\ \A i \in 1..Len(out) :
         LET same == WithId(all, out[i].docket_id)
         IN  out[i] = same[Len(same)]

\* C1: once main() has built the merged dict (run.py 77), it holds exactly one
\* Case Summary per docket id of search + docket-number + title records, and
\* for every id the whole record that comes last in that concatenation; the
\* summaries built from the hits already hold one record per docket id.
C1_MergeLastWins ==
    /\ pc \in {"news", "by_number", "by_title", "merge_cases"} =>
         \A i, j \in 1..Len(cl_cases) : i # j => cl_cases[i].docket_id # cl_cases[j].docket_id
    /\ pc = "assign_cases" =>
         OnePerIdLastWins(merged_cases, cl_cases \o extra_cases \o extra_cases_by_title)

\* C1 witness: the three lists hold docket 1 with three different contents and
\* the merged dict has kept the title lookup's record.
C1_Witness ==
    /\ pc = "assign_cases"
    /\ \E i \in 1..Len(cl_cases), j \in 1..Len(extra_cases),
          k \in 1..Len(extra_cases_by_title), m \in 1..Len(merged_cases) :
         /\ cl_cases[i].docket_id = 1 /\ extra_cases[j].docket_id = 1
         /\ extra_cases_by_title[k].docket_id = 1
         /\ cl_cases[i] # extra_cases[j] /\ extra_cases[j] # extra_cases_by_title[k]
         /\ cl_cases[i] # extra_cases_by_title[k]
         /\ merged_cases[m] = extra_cases_by_title[k]

\* run.py 48-110: the steps of main() in program order
MainOrder == <<"search", "docs_from_hits", "cases_from_hits", "news",
               "cases_by_docket_number", "cases_by_title", "merge_cases",
               "docs_by_docket_id", "merge_docs", "render">>

\* C2: the steps of a run are a prefix of search, docket-number lookup, title
\* lookup, case merge, document lookup by docket id ... in that order, and the
\* merged cases prefer the title lookup's record to the docket-number lookup's
\* and that to the search's.
C2_FixedOrder ==
    /\ Len(calls) <= Len(MainOrder)
    /\ \A i \in 1..Len(calls) : calls[i] = MainOrder[i]
    /\ pc = "assign_cases" =>
         \A m \in 1..Len(merged_cases) :
           LET k == merged_cases[m].docket_id
               t == WithId(extra_cases_by_title, k)
               n == WithId(extra_cases, k)
               h == WithId(cl_cases, k)
           IN  merged_cases[m] = IF t # <<>> THEN t[Len(t)]
                                 ELSE IF n # <<>> THEN n[Len(n)] ELSE h[Len(h)]

\* C2 witness: a run that has gone through every fetch path and the case merge
\* and has looked the documents up, with records from all three paths.
C2_Witness ==
    /\ pc = "merge_docs"
    /\ cl_cases # <<>> /\ extra_cases # <<>> /\ extra_cases_by_title # <<>>
    /\ hits # <<>>
    /\ calls = SubSeq(MainOrder, 1, 8)

Same4(x, y) ==
    /\ x.docket_id = y.docket_id /\ x.doc_number = y.doc_number
    /\ x.date_filed = y.date_filed /\ x.document_url = y.document_url

NoSharedTuple(docs) == \A i, j \in 1..Len(docs) : i # j => ~Same4(docs[i], docs[j])

\* C3: no two Documents that build_complaint_documents_from_hits returns, and
\* no two of main()'s merged dict, share (docket_id, doc_number, date_filed,
\* document_url); the merged dict holds every tuple of cl_docs + extra_docs
\* once, with the record that comes last.
C3_DocDedup ==
    /\ NoSharedTuple(cl_docs)
    /\ NoSharedTuple(merged_docs)
    /\ pc = "assign_docs" =>
         LET all == cl_docs \o extra_docs
         IN  /\ \A k \in 1..Len(all) : \E m \in 1..Len(merged_docs) : Same4(all[k], merged_docs[m])
             /\ \A m \in 1..Len(merged_docs) : \E k \in 1..Len(all) :
                  /\ merged_docs[m] = all[k]
                  /\ \A l \in (k + 1)..Len(all) : ~Same4(all[l], all[k])

\* C3 witness: a document built from the hits and one from the docket-id
\* lookup share the tuple and differ in another field; the merged dict holds
\* the lookup's, which came later, and not the other.
C3_Witness ==
    /\ pc = "assign_docs"
    /\ \E i \in 1..Len(cl_docs), j \in 1..Len(extra_docs) :
         /\ Same4(cl_docs[i], extra_docs[j])
         /\ cl_docs[i].case_name # extra_docs[j].case_name
         /\ \E m \in 1..Len(merged_docs) : merged_docs[m] = extra_docs[j]
         /\ \A m \in 1..Len(merged_docs) : merged_docs[m] # cl_docs[i]

\* C7: once main() has called the renderer, the call has returned a string and
\* the run is at the publishing stage.
C7_RenderNeverRaises ==
    (Len(calls) = Len(MainOrder)) => (pc = "publish" /\ err = None /\ md # <<>>)

(***************************************************************************)
(* SpecFetch: single calls of the fetch-boundary functions, each against   *)
(* any exchange.  fcall holds the function, the exchange, the exception    *)
(* that reached the caller (None for none) and the value returned.         *)
(***************************************************************************)
ListingBodies ==
    {DictBody(EmptyDict), DictBody([results |-> <<>>]),
     DictBody([results |-> <<rdOrder, rdComplaint>>]),
     DictBody([results |-> <<pty1, pty2>>]), DictBody([results |-> <<ent1, ent2>>])}

Called(fn, resp, out) == [fn |-> fn, resp |-> resp, exc |-> out.exc, ret |-> out.ret]

CallGet ==
    /\ \E resp \in Responses(SearchBodies \cup ListingBodies \cup {DictBody(dk1)}) :
         fcall' = Called("_get", resp, _get(resp))
    /\ UNCHANGED <<mainVars, pubVars>>

CallSearch ==
    /\ \E resp \in Responses(SearchBodies) :
         fcall' = Called("search_recent_documents", resp, search_recent_documents(resp))
    /\ UNCHANGED <<mainVars, pubVars>>

CallListRecap ==
    /\ \E resp \in Responses(ListingBodies) :
         fcall' = Called("list_recap_documents", resp, list_recap_documents(resp))
    /\ UNCHANGED <<mainVars, pubVars>>

CallListParties ==
    /\ \E resp \in Responses(ListingBodies) :
         fcall' = Called("list_parties", resp, list_parties(resp))
    /\ UNCHANGED <<mainVars, pubVars>>

CallListEntries ==
    /\ \E resp \in Responses(ListingBodies) :
         fcall' = Called("list_docket_entries", resp, list_docket_entries(resp))
    /\ UNCHANGED <<mainVars, pubVars>>

NextFetch == CallGet \/ CallSearch \/ CallListRecap \/ CallListParties \/ CallListEntries

SpecFetch == Init /\ [][NextFetch]_vars

ListingFns == {"search_recent_documents", "list_recap_documents", "list_parties",
               "list_docket_entries"}

\* C9: after a call whose exchange failed (network error, 401/403, another
\* non-2xx status, or a body that does not parse), no exception has reached
\* the caller, _get has returned None and the search and listing functions
\* have returned the empty list.
C9_FetchFailureSwallowed ==
    (fcall.fn # "none" /\ IsFailure(fcall.resp)) =>
        /\ fcall.exc = None
        /\ fcall.fn = "_get" => fcall.ret = NoneBody
        /\ fcall.fn \in ListingFns => fcall.ret = <<>>

\* C9 witness: list_docket_entries has met a 500 and returned the empty list.
C9_Witness ==
    /\ fcall.fn = "list_docket_entries"
    /\ fcall.resp.net = "ok" /\ fcall.resp.status = 500
    /\ fcall.exc = None /\ fcall.ret = <<>>

\* the search filter at work on a good exchange: the old result is dropped
SearchFilterSeen ==
    /\ fcall.fn = "search_recent_documents" /\ ~IsFailure(fcall.resp)
    /\ fcall.resp.body = DictBody([results |-> <<hD, hA>>])
    /\ fcall.ret = <<hA>>

(***************************************************************************)
(* Properties of the publishing stage.                                     *)
(***************************************************************************)
\* the call has been made by the run and succeeded
Succeeded(call) == \E i \in 1..Len(calls) : calls[i].call = call /\ calls[i].ok

ContainsMarker(text) == MarkerText \in {text[i] : i \in 1..Len(text)}

LastComment(n) == issues[n].comments[Len(issues[n].comments)]

PastBodyStep == {"close_list", "close_comment", "close_issue", "comment", "slack", "done"}

\* C4: when the body read from the issue does not contain the marker, the run
\* does not compare: it suppresses no line and leaves the report unchanged,
\* it goes on only after writing the body, the body written is the report
\* verbatim, and the comment it creates is the report without a summary
\* header.
C4_FirstRunStoresReport ==
    (Succeeded("get_issue_body") /\ ~ContainsMarker(current_body)) =>
        /\ pc # "compare" /\ skipped_count = 0 /\ md = report
        /\ pc \in PastBodyStep => Succeeded("update_issue_body")
        /\ Succeeded("update_issue_body") => issues[issue_no].body = report
        /\ Succeeded("create_comment") => LastComment(issue_no) = <<NL, NL>> \o report

C4_Witness ==
    /\ pc = "done" /\ ~ContainsMarker(current_body)
    /\ issues[issue_no].body = report
    /\ LastComment(issue_no) = <<NL, NL>> \o report

ExampleMarkerLine == <<MarkerText, " 3", "d summary">>
ExamplePrevBody == JoinLines(<<ExampleMarkerLine, <<"rowA">>, <<"rowB">> >>)
ExampleNewReport == JoinLines(<<ExampleMarkerLine, <<"rowA">>, <<"rowC">> >>)

\* C5: when the body read from the issue contains the marker, the text that
\* leaves the comparison is the change-summary header followed by one entry per line of the
\* new report in the original order, an entry being the placeholder exactly
\* when the line equals some line of the body and the line itself otherwise,
\* and the suppressed count is the number of placeholders; for the body
\* [marker line, rowA, rowB] and the report [marker line, rowA, rowC] two
\* lines are suppressed and rowC alone is kept.
C5_RerunDifference ==
    /\ (pc = "close_list" /\ ContainsMarker(current_body)) =>
           LET base == splitlines(current_body)
               new == splitlines(report)
               old(i) == \E j \in 1..Len(base) : base[j] = new[i]
               entries == [i \in 1..Len(new) |-> IF old(i) THEN <<"skip">> ELSE new[i]]
           IN  /\ skipped_count = Cardinality({i \in 1..Len(new) : old(i)})
               /\ md = SummaryBlock(Len(lawsuits), Len(cl_cases), RecapDocCount(cl_cases),
                                    skipped_count) \o JoinLines(entries)
    /\ Differencer(ExamplePrevBody, ExampleNewReport) =
           [new_lines |-> << <<"skip">>, <<"skip">>, <<"rowC">> >>, skipped_count |-> 2]

C5_Witness ==
    /\ pc = "done" /\ ContainsMarker(current_body)
    /\ skipped_count > 0 /\ skipped_count < Len(splitlines(report))
    /\ LET base == splitlines(current_body)
           new == splitlines(report)
       IN  \E i \in 1..Len(new) :
             /\ i > Len(base) \/ new[i] # base[i]
             /\ \E j \in 1..Len(base) : base[j] = new[i]

BodiesKept == \A n \in 1..Len(issues) : issues'[n].body = issues[n].body

BodyPublished == Succeeded("update_issue_body") /\ issues[issue_no].body = report
CommentPublished == Succeeded("create_comment") /\ LastComment(issue_no) = <<NL, NL>> \o md

\* C8 as claimed: a failed call of the stage raises, ends the run with no
\* later call and no second try, and leaves no report of the run published,
\* neither as issue body nor as comment.
C8_FailureLeavesNothing ==
    \A i \in 1..Len(calls) :
        ~calls[i].ok => /\ pc = "crashed" /\ err = "HTTPError" /\ i = Len(calls)
                        /\ ~BodyPublished /\ ~CommentPublished

\* C8 as amended: a failed call of the stage raises and ends the run with no
\* later call and no second try; what the earlier calls of the run wrote
\* stays: the body once update_issue_body succeeded, the comment once
\* create_comment succeeded, which only a failed chat post follows.
C8_FailureEndsRun ==
    \A i \in 1..Len(calls) :
        ~calls[i].ok =>
            /\ pc = "crashed" /\ err = "HTTPError" /\ i = Len(calls)
            /\ \A j \in 1..(i - 1) : calls[j].ok
            /\ Succeeded("update_issue_body") => BodyPublished
            /\ Succeeded("create_comment") =>
                   CommentPublished /\ calls[i].call = "post_to_slack"
            /\ (issue_no # 0 /\ ~Succeeded("update_issue_body") /\ current_body # <<>>)
                   => issues[issue_no].body = current_body

C8_Witness ==
    /\ pc = "crashed" /\ err = "HTTPError"
    /\ calls[Len(calls)] = [call |-> "list_open_issues", ok |-> FALSE]
    /\ BodyPublished


(***************************************************************************)
(* The risk scorer.  The sources at hand hold no scorer and render.py     *)
(* shows no score; it is modelled from section 4.4 of the specification:  *)
(* the text of a record is its causes and its extracted snippet in lower  *)
(* case, a text is the sequence of its words, and a category is present   *)
(* when one of its keywords is among them; the 820 category tests the     *)
(* nature-of-suit code.                                                    *)
(***************************************************************************)
MaxWords == 4       \* words in an extracted snippet

ScoreWords == {"crawl", "Scrape", "training", "LLM", "commercial", "class action", "use"}

\* str.lower() on the words that occur
Lower(w) ==
    CASE w = "Scrape" -> "scrape"
      [] w = "LLM" -> "llm"
      [] OTHER -> w

ScoreKeywords == [scrape |-> {"scrape", "crawl"}, train |-> {"training", "llm"},
                  commercial |-> {"commercial"}, class_action |-> {"class action"}]

ScoreWeights == [scrape |-> 30, train |-> 30, commercial |-> 15, class_action |-> 10,
                 nos820 |-> 15]

\* the nature-of-suit code membership test: "820" in nature_of_suit
Has820(nature) == nature \in {"820 Copyright", "820"}

\* a scorer that adds a category's weight for every keyword found
risk_score_per_keyword(rec) ==
    LET text == [i \in 1..Len(rec.extracted_causes \o rec.extracted_ai_snippet) |->
                   Lower((rec.extracted_causes \o rec.extracted_ai_snippet)[i])]
        hits_of(c) == Cardinality({i \in 1..Len(text) : text[i] \in ScoreKeywords[c]})
        total == hits_of("scrape") * ScoreWeights.scrape
                 + hits_of("train") * ScoreWeights.train
                 + hits_of("commercial") * ScoreWeights.commercial
                 + hits_of("class_action") * ScoreWeights.class_action
                 + (IF Has820(rec.nature_of_suit) THEN ScoreWeights.nos820 ELSE 0)
    IN  IF total > 100 THEN 100 ELSE total

\* section 4.4: the weights of the categories present, added up and capped
risk_score(rec) ==
    LET raw == rec.extracted_causes \o rec.extracted_ai_snippet
        text == [i \in 1..Len(raw) |-> Lower(raw[i])]
        has(c) == \E i \in 1..Len(text) : text[i] \in ScoreKeywords[c]
        s1 == IF has("scrape") THEN ScoreWeights.scrape ELSE 0
        s2 == s1 + (IF has("train") THEN ScoreWeights.train ELSE 0)
        s3 == s2 + (IF has("commercial") THEN ScoreWeights.commercial ELSE 0)
        s4 == s3 + (IF Has820(rec.nature_of_suit) THEN ScoreWeights.nos820 ELSE 0)
        s5 == s4 + (IF has("class_action") THEN ScoreWeights.class_action ELSE 0)
    IN  IF s5 > 100 THEN 100 ELSE s5

\* the records scored: a nature of suit, at most one cause and a snippet
ScoreRecords ==
    [nature_of_suit : {"820 Copyright", "190 Contract", Unknown},
     extracted_causes : {<<>>, <<"Scrape">>},
     extracted_ai_snippet : SeqUpTo(ScoreWords, MaxWords)]

\* one call of the scorer; fcall holds the record and the score
CallRiskScore ==
    /\ fcall = IdleCall
    /\ \E rec \in ScoreRecords :
         fcall' = [fn |-> "risk_score", resp |-> rec, exc |-> None, ret |-> risk_score(rec)]
    /\ UNCHANGED <<mainVars, pubVars>>

NextScore == CallRiskScore

SpecScore == Init /\ [][NextScore]_vars

\* the categories a record shows, read off its fields
CategoriesOf(rec) ==
    {c \in DOMAIN ScoreKeywords :
       \E w \in ScoreKeywords[c] :
         \E i \in 1..Len(rec.extracted_causes \o rec.extracted_ai_snippet) :
           Lower((rec.extracted_causes \o rec.extracted_ai_snippet)[i]) = w}
    \cup (IF Has820(rec.nature_of_suit) THEN {"nos820"} ELSE {})

RECURSIVE WeightSum(_)
WeightSum(cs) ==
    IF cs = {} THEN 0
    ELSE LET c == CHOOSE x \in cs : TRUE IN ScoreWeights[c] + WeightSum(cs \ {c})

\* section 7's scenario: 820 Copyright, "used for training an LLM via web
\* crawl, commercial use, class action"
ScenarioRecord ==
    [nature_of_suit |-> "820 Copyright", extracted_causes |-> <<>>,
     extracted_ai_snippet |-> <<"use", "training", "LLM", "crawl", "commercial", "use",
                                "class action">>]

DocTextFields == {"docket_number", "case_name", "court", "date_filed", "doc_type",
                  "doc_number", "description", "document_url", "pdf_url",
                  "pdf_text_snippet", "extracted_plaintiff", "extracted_defendant",
                  "extracted_causes", "extracted_ai_snippet"}

\* courtlistener.py 43-60: the str fields of CLCaseSummary
CaseTextFields == {"case_name", "docket_number", "court", "date_filed", "status", "judge",
                   "magistrate", "nature_of_suit", "cause", "parties", "complaint_doc_no",
                   "complaint_link", "recent_updates", "extracted_causes",
                   "extracted_ai_snippet"}

\* C12: no text field of a Document or Case Summary the two builders have
\* returned is None or the empty string (a field without data holds the
\* "unknown" sentinel), and neither builder has raised on the records it met.
C12_SentinelNeverEmpty ==
    /\ \A i \in 1..Len(cl_docs) : \A f \in DocTextFields : cl_docs[i][f] \notin {None, ""}
    /\ \A i \in 1..Len(cl_cases) : \A f \in CaseTextFields : cl_cases[i][f] \notin {None, ""}
    /\ pc = "crashed" => calls[Len(calls)] \notin {"docs_from_hits", "cases_from_hits"}


(***************************************************************************)
(* The summary-counts table of a run.                                      *)
(***************************************************************************)
\* the table with counts n_news, n_cases and n_docs, line by line
KpiTable(n_news, n_cases, n_docs) ==
    << <<"|", " kind ", "|", " count ", "|">>,
       <<"|", "---", "|", "---", "|">>,
       <<"|", " news ", "|", " **", ToString(n_news), "** ", "|">>,
       <<"|", " RECAP cases ", "|", " **", ToString(n_cases), "** ", "|">>,
       <<"|", " RECAP documents ", "|", " **", ToString(n_docs), "** ", "|">> >>

\* text holds the lines of table one after the other
HoldsLines(text, table) ==
    LET lines == splitlines(text)
    IN  \E k \in 0..(Len(lines) - Len(table)) :
           \A j \in 1..Len(table) : lines[k + j] = table[j]

\* the search has returned and every fetch path has given nothing so far
NothingFetched ==
    /\ calls # <<>> /\ ~(pc = "crashed" /\ calls = <<"search">>)
    /\ hits = <<>> /\ lawsuits = <<>> /\ extra_cases = <<>>
    /\ extra_cases_by_title = <<>> /\ extra_docs = <<>>

\* C13: once main() has called the renderer, the report holds the
\* summary-counts table with the numbers of lawsuits, merged case summaries
\* and merged documents of the run; a run whose fetch paths all return
\* nothing has empty merged lists, raises at no step and reports 0, 0, 0.
C13_KpiTableAlways ==
    /\ (Len(calls) = Len(MainOrder)) =>
          HoldsLines(md, KpiTable(Len(lawsuits), Len(cl_cases), Len(cl_docs)))
    /\ NothingFetched =>
          /\ pc # "crashed"
          /\ cl_cases = <<>> /\ cl_docs = <<>> /\ merged_cases = <<>> /\ merged_docs = <<>>
          /\ (Len(calls) = Len(MainOrder)) => HoldsLines(md, KpiTable(0, 0, 0))


(***************************************************************************)
(* SpecTables: render_markdown on long lists.  The lists are built by the  *)
(* two builders from n search hits of n dockets; docket i carries one of   *)
(* three filing dates (none for the third) and one complaint of that date. *)
(***************************************************************************)
MaxRows == 26       \* search hits of one run

TableDates == <<"2026-01-15", "2026-11-03", "">>
TableNatures == <<"820 Copyright", "190 Contract">>

TableHit(i) == [docket_id |-> i, caseName |-> "X"]

\* what the service answers for hit i
TableEnv(i, date, nature) ==
    [EnvOk EXCEPT
       !.docket = HttpResp(200, DictBody([dk1 EXCEPT !.date_filed = date,
                                                     !.nature_of_suit = nature])),
       !.recap = HttpResp(200, DictBody([results |->
                    <<[description |-> "Complaint", document_number |-> "1",
                       date_filed |-> date,
                       absolute_url |-> "https://x.org/doc/" \o ToString(i)]>>])),
       !.text = NoText]

InitTables ==
    /\ \E n \in 0..MaxRows, k \in 0..2, off \in 0..2, m \in 0..2 :
         LET hs == [i \in 1..n |-> TableHit(i)]
             env == [i \in 1..n |->
                       TableEnv(i, TableDates[((i * k + off) % 3) + 1],
                                TableNatures[IF m = 2 THEN (i % 2) + 1 ELSE m + 1])]
         IN  /\ hits = hs
             /\ cl_cases = build_case_summaries_from_hits(hs, env).ret
             /\ cl_docs = build_complaint_documents_from_hits(hs, env).ret
    /\ lawsuits = <<>>
    /\ pc = "render" /\ err = None /\ calls = <<>>
    /\ extra_cases = <<>> /\ extra_cases_by_title = <<>> /\ docket_ids = <<>>
    /\ extra_docs = <<>> /\ md = <<>> /\ merged_cases = <<>> /\ merged_docs = <<>>
    /\ fcall = IdleCall /\ PubIdle

NextTables == CallRenderMarkdown

SpecTables == InitTables /\ [][NextTables]_vars

\* the rows of the table whose header is line h: the lines after the
\* separator as far as they are rows
RowsAfter(lines, h) ==
    LET last == CHOOSE j \in (h + 1)..Len(lines) :
                   /\ \A k \in h..j : IsRow(lines[k])
                   /\ (j = Len(lines) \/ ~IsRow(lines[j + 1]))
    IN  SubSeq(lines, h + 2, last)

\* rows show dates that do not rise; shown[j] is the input record of row j
\* and dates[j] the date row j displays
TopByDate(shown, dates, class, rank(_), limit) ==
    /\ Len(shown) = (IF Cardinality(class) < limit THEN Cardinality(class) ELSE limit)
    /\ \A j \in 1..Len(shown) : shown[j] \in class /\ dates[j] = rank(shown[j])
    /\ \A j, l \in 1..Len(shown) : j # l => shown[j] # shown[l]
    /\ \A j \in 1..(Len(shown) - 1) : dates[j] >= dates[j + 1]
    /\ \A i \in class : (\A j \in 1..Len(shown) : shown[j] # i) =>
                            \A j \in 1..Len(shown) : rank(i) <= dates[j]

\* C14: in each case table and in the document table of the rendered report
\* the rows stand in non-increasing order of date_filed; a case table shows
\* min(25, n) of the n cases of its class and the document table min(20, n)
\* of the n documents, each record once, and no record left out has a later
\* date_filed than a record shown.
C14_RowsSortedTruncated ==
    pc = "rendered" =>
      LET lines == splitlines(md)
          caseAt(row) == CHOOSE i \in 1..Len(cl_cases) :
                            ToString(cl_cases[i].docket_id) = row[15]
          docAt(row) == CHOOSE i \in 1..Len(cl_docs) : cl_docs[i].document_url = row[18]
          is820(i) == cl_cases[i].nature_of_suit = "820 Copyright"
          caseHeads == {h \in 1..Len(lines) : lines[h] = CaseHeader}
          docHeads == {h \in 1..Len(lines) : lines[h] = DocHeader}
      IN  /\ Cardinality(caseHeads) =
               Cardinality({b \in BOOLEAN : \E i \in 1..Len(cl_cases) : is820(i) = b})
          /\ \A h \in caseHeads :
               LET rows == RowsAfter(lines, h)
                   shown == [j \in 1..Len(rows) |-> caseAt(rows[j])]
               IN  /\ rows # <<>>
                   /\ TopByDate(shown,
                                [j \in 1..Len(rows) |-> DateRank(rows[j][7])],
                                {i \in 1..Len(cl_cases) : is820(i) = is820(shown[1])},
                                LAMBDA i : DateRank(cl_cases[i].date_filed), 25)
          /\ Cardinality(docHeads) = (IF cl_docs = <<>> THEN 0 ELSE 1)
          /\ \A h \in docHeads :
               LET rows == RowsAfter(lines, h)
                   shown == [j \in 1..Len(rows) |-> docAt(rows[j])]
               IN  TopByDate(shown,
                             [j \in 1..Len(rows) |-> DateRank(rows[j][3])],
                             1..Len(cl_docs),
                             LAMBDA i : DateRank(cl_docs[i].date_filed), 20)

\* C14 witness: 26 cases of one class and 26 documents with differing dates
\* have been rendered; the case table shows 25 rows and the document table
\* 20, and the last case of the input, which carries the latest date, is shown.
C14_Witness ==
    /\ pc = "rendered" /\ Len(cl_cases) = 26 /\ Len(cl_docs) = 26
    /\ \A i \in 1..26 : cl_cases[i].nature_of_suit = "820 Copyright"
    /\ \A i \in 1..25 : DateRank(cl_cases[i].date_filed) <= DateRank(cl_cases[26].date_filed)
    /\ \E i \in 1..25 : DateRank(cl_cases[i].date_filed) < DateRank(cl_cases[26].date_filed)
    /\ LET lines == splitlines(md)
           h == CHOOSE k \in 1..Len(lines) : lines[k] = CaseHeader
           g == CHOOSE k \in 1..Len(lines) : lines[k] = DocHeader
       IN  /\ Len(RowsAfter(lines, h)) = 25 /\ Len(RowsAfter(lines, g)) = 20
           /\ \E j \in 1..25 : RowsAfter(lines, h)[j][15] = "26"


(***************************************************************************)
(* SpecClose: the publishing stage against a tracker that already holds    *)
(* two open issues with the label which people opened; an earlier run is   *)
(* counted for them.                                                       *)
(***************************************************************************)
ForeignIssues ==
    {[title |-> t, open |-> TRUE, body |-> TemplateBody, comments |-> <<>>] :
        t \in {DraftTitle, TailTitle}}

InitClose ==
    /\ pc = "idle" /\ err = None /\ calls = <<>>
    /\ hits = <<>> /\ cl_docs = <<>> /\ cl_cases = <<>> /\ lawsuits = <<>>
    /\ extra_cases = <<>> /\ extra_cases_by_title = <<>> /\ docket_ids = <<>>
    /\ extra_docs = <<>> /\ md = <<>> /\ merged_cases = <<>> /\ merged_docs = <<>>
    /\ fcall = IdleCall
    /\ issues \in [1..2 -> ForeignIssues]
    /\ slack = <<>> /\ runs = 1
    /\ now_kst = [day |-> 1, minute |-> "09:00"]
    /\ report = <<>> /\ issue_no = 0 /\ current_body = <<>> /\ branch = "none"
    /\ skipped_count = 0 /\ closing = <<>> /\ closed = <<>> /\ last_rerun = NoRerun

SpecClose == InitClose /\ [][NextPublish]_vars

\* the title is "<base_title> (" ... ")"
HasDailyForm(t) == t \in {IssueTitle(d) : d \in Days} \cup {DraftTitle}

IsFooter(c) == \E k \in 1..Len(issues) : c = Footer(k)

\* close_other_daily_issues has returned
ClosingReturned == pc \in {"comment", "slack", "done"}

C16_BodyWrittenOnce ==
    Succeeded("update_issue_body") =>
        /\ issue_has_base_snapshot(issues[issue_no].body)
        /\ current_body = TemplateBody


\* the open issues that carry the title of the day
OpenOfTheDay == {n \in 1..Len(issues) : issues[n].open /\ issues[n].title = issue_title}

\* C17: an issue is created only when no open issue carries the requested
\* title, and it carries that title; so no two issues share a title of the
\* day, and the report of every run is posted as comment to the one open
\* issue with the title of the run.
C17_OneIssuePerTitle ==
    /\ [](/\ \A n, m \in 1..Len(issues) :
               (n # m /\ issues[n].title = issues[m].title) =>
                   \A d \in Days : issues[n].title # IssueTitle(d)
          /\ issue_no # 0 => OpenOfTheDay = {issue_no}
          /\ Succeeded("create_comment") =>
               LastComment(issue_no) = <<NL, NL>> \o md)
    /\ [][/\ Len(issues') > Len(issues) =>
               /\ OpenOfTheDay = {}
               /\ Len(issues') = Len(issues) + 1
               /\ issues'[Len(issues')].title = issue_title
               /\ issue_no' = Len(issues')
          /\ \A n \in 1..Len(issues) :
               (Len(issues'[n].comments) > Len(issues[n].comments)
                  /\ ~IsFooter(issues'[n].comments[Len(issues'[n].comments)])) =>
                     OpenOfTheDay = {n}]_vars

\* C17 witness: three runs of one day have ended; the tracker holds one
\* issue, created by the first, with the three reports as its comments.
C17_Witness ==
    /\ runs = 3 /\ pc = "done"
    /\ Len(issues) = 1 /\ issues[1].title = issue_title /\ issues[1].open
    /\ Len(issues[1].comments) = 3
    /\ LastComment(1) = <<NL, NL>> \o md

=============================================================================
